---- MODULE Spec2Model ----
(***************************************************************************)
(* Model of the Tokenly RTC signaling server (src/src/signaling_server.rs) *)
(*                                                                         *)
(*  - the reconnection tracker (ReconnectInfo and the SignalingState       *)
(*    methods that drive it),                                              *)
(*  - the session registry and the message dispatch,                       *)
(*  - the connection manager: one episode per accepted upgrade, each with  *)
(*    its main task and the three spawned duties.                          *)
(*                                                                         *)
(* Durations are in milliseconds.  Timestamps (last_attempt, created_at)   *)
(* are kept only as "None"/"Some": the wall clock is not modelled.         *)
(***************************************************************************)
EXTENDS Integers, Sequences, FiniteSets, TLC

\* ------------------------------------------------------------------------
\* Program constants (signaling_server.rs 16-18)
\* ------------------------------------------------------------------------
MAX_RECONNECT_ATTEMPTS == 5
INITIAL_RECONNECT_DELAY == 1000
MAX_RECONNECT_DELAY == 30000
HEARTBEAT_INTERVAL == 30000
CONNECTION_TIMEOUT == 10000
\* the read timeout of the receiver task (signaling_server.rs 300)
READ_TIMEOUT == CONNECTION_TIMEOUT * 2

\* ------------------------------------------------------------------------
\* Bounds of the model
\* ------------------------------------------------------------------------
\* failures recorded between two mark_connected (tracker harness)
MaxCalls == 7
\* attempt_reconnect calls asleep at one time (tracker harness)
MaxSleepers == 2
\* upgrades accepted during one run of the process
MaxEpisodes == 2
\* frames waiting on one outbound queue
MaxQueue == 1
\* frames waiting on the outbound queue in the dispatch harness
MaxBacklog == 2
\* heartbeat ticks of one episode in the timing harness
MaxTicks == 3
\* frames enqueued in one episode in the ordering harness
MaxFrames == 3
\* upgrades accepted in the overlap harness
MaxOverlap == 6

Min(a, b) == IF a < b THEN a ELSE b

RECURSIVE Pow2(_)
Pow2(k) == IF k = 0 THEN 1 ELSE 2 * Pow2(k - 1)

ConnectionState == {"Connected", "Disconnected", "Reconnecting", "Failed"}

\* ------------------------------------------------------------------------
\* ReconnectInfo
\* ------------------------------------------------------------------------
\* ReconnectInfo::new
ReconnectInfo_new ==
  [attempts |-> 0, next_delay |-> INITIAL_RECONNECT_DELAY,
   last_attempt |-> "None", state |-> "Disconnected"]

reset_keeps_delay(info) ==
  [info EXCEPT !.attempts = 0, !.last_attempt = "None", !.state = "Connected"]

\* ReconnectInfo::reset
reset(info) ==
  [attempts |-> 0, next_delay |-> INITIAL_RECONNECT_DELAY,
   last_attempt |-> "None", state |-> "Connected"]

increment_attempt_no_backoff(info) ==
  [info EXCEPT !.attempts = info.attempts + 1, !.last_attempt = "Some",
               !.state = "Reconnecting"]

increment_attempt_uncapped(info) ==
  [attempts |-> info.attempts + 1,
   next_delay |-> info.next_delay * 2,
   last_attempt |-> "Some",
   state |-> "Reconnecting"]

\* ReconnectInfo::increment_attempt
increment_attempt(info) ==
  [attempts |-> info.attempts + 1,
   next_delay |-> Min(info.next_delay * 2, MAX_RECONNECT_DELAY),
   last_attempt |-> "Some",
   state |-> "Reconnecting"]

should_attempt_reconnect_off_by_one(info) ==
  info.attempts <= MAX_RECONNECT_ATTEMPTS /\ info.state # "Failed"

\* ReconnectInfo::should_attempt_reconnect
should_attempt_reconnect(info) ==
  info.attempts < MAX_RECONNECT_ATTEMPTS /\ info.state # "Failed"

\* ReconnectInfo::mark_failed
mark_failed(info) == [info EXCEPT !.state = "Failed"]

\* SignalingState::update_connection_state
update_connection_state(info, st) ==
  LET set == [info EXCEPT !.state = st]
  IN  IF st = "Connected" THEN reset(set) ELSE set

attempt_reconnect_counts_refused(info) ==
  IF ~should_attempt_reconnect(info)
  THEN [info |-> [mark_failed(info) EXCEPT !.attempts = info.attempts + 1],
        ret |-> FALSE]
  ELSE [info |-> increment_attempt(info), ret |-> TRUE]

\* SignalingState::attempt_reconnect: the tracker as the call leaves it under
\* the lock, and the bool it returns (false at once, true after its sleep)
attempt_reconnect(info) ==
  IF ~should_attempt_reconnect(info)
  THEN [info |-> mark_failed(info), ret |-> FALSE]
  ELSE [info |-> increment_attempt(info), ret |-> TRUE]

\* ------------------------------------------------------------------------
\* Message codec (serde, internally tagged by "type")
\* ------------------------------------------------------------------------
SessionIds == {"s1", "s2"}
RoomIds == {"r1", "r2"}

\* SignalingMessage: the four variants
SignalingMessage ==
  [variant : {"CreatePeer"}, session_id : SessionIds, room_id : RoomIds]
  \cup [variant : {"DestroyPeer"}, session_id : SessionIds]
  \cup [variant : {"PeerCreated"}, session_id : SessionIds, success : BOOLEAN]
  \cup [variant : {"PeerDestroyed"}, session_id : SessionIds]

\* serde_json::to_string::<SignalingMessage>: the JSON object, as a record
to_string(msg) ==
  CASE msg.variant = "CreatePeer" ->
         [type |-> "create-peer", session_id |-> msg.session_id,
          room_id |-> msg.room_id]
    [] msg.variant = "DestroyPeer" ->
         [type |-> "destroy-peer", session_id |-> msg.session_id]
    [] msg.variant = "PeerCreated" ->
         [type |-> "peer-created", session_id |-> msg.session_id,
          success |-> msg.success]
    [] msg.variant = "PeerDestroyed" ->
         [type |-> "peer-destroyed", session_id |-> msg.session_id]

HasFields(text, fields) == fields \subseteq DOMAIN text

\* serde_json::from_str::<SignalingMessage>: Ok(msg) or Err
from_str(text) ==
  IF ~HasFields(text, {"type"}) THEN [ok |-> FALSE]
  ELSE CASE text.type = "create-peer" /\ HasFields(text, {"session_id", "room_id"}) ->
              [ok |-> TRUE,
               msg |-> [variant |-> "CreatePeer", session_id |-> text.session_id,
                        room_id |-> text.room_id]]
         [] text.type = "destroy-peer" /\ HasFields(text, {"session_id"}) ->
              [ok |-> TRUE,
               msg |-> [variant |-> "DestroyPeer", session_id |-> text.session_id]]
         [] text.type = "peer-created" /\ HasFields(text, {"session_id", "success"}) ->
              [ok |-> TRUE,
               msg |-> [variant |-> "PeerCreated", session_id |-> text.session_id,
                        success |-> text.success]]
         [] text.type = "peer-destroyed" /\ HasFields(text, {"session_id"}) ->
              [ok |-> TRUE,
               msg |-> [variant |-> "PeerDestroyed", session_id |-> text.session_id]]
         [] OTHER -> [ok |-> FALSE]

\* Frames (axum Message) on the socket and on the outbound queue
PingFrame == [kind |-> "Ping"]
PongFrame == [kind |-> "Pong"]
TextFrame(text) == [kind |-> "Text", text |-> text]

\* ------------------------------------------------------------------------
\* Session registry (active_sessions: session id -> room id)
\* ------------------------------------------------------------------------
\* SignalingState::provide_turn_config: HashMap::insert, then Ok(true)
provide_turn_config(sessions, session_id, room_id) ==
  [sessions |-> [x \in (DOMAIN sessions) \cup {session_id} |->
                   IF x = session_id THEN room_id ELSE sessions[x]],
   result |-> [ok |-> TRUE, value |-> TRUE]]

destroy_session_keeps(sessions, session_id) == sessions

destroy_session_clears(sessions, session_id) ==
  [x \in {y \in DOMAIN sessions : FALSE} |-> sessions[x]]

\* SignalingState::destroy_session: HashMap::remove
destroy_session(sessions, session_id) ==
  [x \in (DOMAIN sessions) \ {session_id} |-> sessions[x]]

\* SignalingState::destroy_session, what the caller and the log get: the
\* function returns no value, and prints one line when the session existed
destroy_session_output(sessions, session_id) ==
  [returned |-> << >>,
   log |-> IF session_id \in DOMAIN sessions THEN <<"Session destroyed">> ELSE << >>]

\* SignalingState::get_active_sessions_count
get_active_sessions_count(sessions) == Cardinality(DOMAIN sessions)

\* UnboundedSender::send on the outbound queue: fails, and drops the frame,
\* once the receiving half has been dropped (the sender task has ended)
tx_send_pushes_front(open, queue, frame) ==
  IF open THEN [queue |-> <<frame>> \o queue, ok |-> TRUE]
          ELSE [queue |-> queue, ok |-> FALSE]

tx_send(open, queue, frame) ==
  IF open THEN [queue |-> Append(queue, frame), ok |-> TRUE]
          ELSE [queue |-> queue, ok |-> FALSE]

handle_signaling_message_no_insert(message, sessions, open, queue) ==
  CASE message.variant = "CreatePeer" ->
         [sessions |-> sessions,
          queue |-> tx_send(open, queue,
                      TextFrame(to_string([variant |-> "PeerCreated",
                                           session_id |-> message.session_id,
                                           success |-> TRUE]))).queue]
    [] message.variant = "DestroyPeer" ->
         [sessions |-> destroy_session(sessions, message.session_id),
          queue |-> tx_send(open, queue,
                      TextFrame(to_string([variant |-> "PeerDestroyed",
                                           session_id |-> message.session_id]))).queue]
    [] OTHER -> [sessions |-> sessions, queue |-> queue]

handle_signaling_message_echoes(message, sessions, open, queue) ==
  CASE message.variant = "CreatePeer" ->
         LET r == provide_turn_config(sessions, message.session_id, message.room_id)
         IN  [sessions |-> r.sessions,
              queue |-> tx_send(open, queue,
                          TextFrame(to_string([variant |-> "PeerCreated",
                                               session_id |-> message.session_id,
                                               success |-> r.result.ok]))).queue]
    [] message.variant = "DestroyPeer" ->
         [sessions |-> destroy_session(sessions, message.session_id),
          queue |-> tx_send(open, queue,
                      TextFrame(to_string([variant |-> "PeerDestroyed",
                                           session_id |-> message.session_id]))).queue]
    [] OTHER ->
         [sessions |-> sessions,
          queue |-> tx_send(open, queue, TextFrame(to_string(message))).queue]

\* handle_signaling_message: the registry and the outbound queue afterwards
handle_signaling_message(message, sessions, open, queue) ==
  CASE message.variant = "CreatePeer" ->
         LET r == provide_turn_config(sessions, message.session_id, message.room_id)
             response == [variant |-> "PeerCreated",
                          session_id |-> message.session_id,
                          success |-> r.result.ok]
         IN  [sessions |-> r.sessions,
              queue |-> tx_send(open, queue, TextFrame(to_string(response))).queue]
    [] message.variant = "DestroyPeer" ->
         LET response == [variant |-> "PeerDestroyed",
                          session_id |-> message.session_id]
         IN  [sessions |-> destroy_session(sessions, message.session_id),
              queue |-> tx_send(open, queue, TextFrame(to_string(response))).queue]
    [] OTHER -> [sessions |-> sessions, queue |-> queue]

\* ------------------------------------------------------------------------
\* State
\* ------------------------------------------------------------------------
VARIABLES
  active_sessions,    \* SignalingState.active_sessions
  nestjs_sender,      \* SignalingState.nestjs_sender: 0 = None, e = Some(tx of episode e)
  reconnect_info,     \* SignalingState.reconnect_info
  pc,                 \* per episode: position of handle_nestjs_socket_with_reconnect
  connection_result,  \* per episode: value of the select! in handle_nestjs_socket
  sender_task,        \* per episode: "none" | "running" | "done"
  receiver_task,      \* per episode: "none" | "running" | "done"
  receiver_result,    \* per episode: value the receiver task returned
  heartbeat_task,     \* per episode: "none" | "running" | "done"
  rx,                 \* per episode: frames waiting on the outbound queue
  first_done,         \* per episode: the duty that terminated first (observer)
  call,               \* harness: the last call made and what it returned
  failures,           \* harness: failures recorded since the last mark_connected
  hist,               \* harness: the last two requests dispatched, with count() around each
  clock,              \* harness: the time and the timers of one episode
  wire,               \* harness: frames enqueued and frames written, in order
  overlap,            \* harness: episodes between their tracker updates
  sleeping            \* attempt_reconnect calls in their back-off sleep, oldest first

vars == <<active_sessions, nestjs_sender, reconnect_info, pc, connection_result,
          sender_task, receiver_task, receiver_result, heartbeat_task, rx,
          first_done, call, failures, hist, clock, wire, overlap, sleeping>>

trackerVars == <<reconnect_info>>
registryVars == <<active_sessions>>
episodeVars == <<nestjs_sender, pc, connection_result, sender_task, receiver_task,
                 receiver_result, heartbeat_task, rx, first_done>>
observerVars == <<clock, wire, overlap>>
\* what only the harnesses drive: the observers, and the callers of
\* attempt_reconnect, which the served process never calls
harnessVars == <<call, failures, hist, clock, wire, overlap, sleeping>>

Episodes == 1 .. MaxEpisodes
Duties == {"sender", "receiver", "heartbeat"}
\* Time runs from the moment the tasks of the episode are spawned: the first
\* tick of the interval is due at once, the first read times out after
\* READ_TIMEOUT; no pong is on its way (pong_at = -1)
NoClock ==
  [now |-> 0, next_tick |-> 0, deadline |-> READ_TIMEOUT, pong_at |-> -1,
   ticks |-> 0, unanswered |-> FALSE, timed_out |-> FALSE]
NoCall ==
  [op |-> "none", before |-> "none", attempts |-> 0, ret |-> FALSE,
   returned |-> TRUE, connected |-> FALSE]

\* JSON texts the backend may send: the two requests, the two outbound-only
\* variants, an unknown tag and requests lacking a required field
InboundTexts ==
  {to_string(m) : m \in {x \in SignalingMessage :
                            x.variant \in {"CreatePeer", "DestroyPeer"}}}
  \cup {to_string([variant |-> "PeerCreated", session_id |-> "s1", success |-> TRUE]),
        to_string([variant |-> "PeerDestroyed", session_id |-> "s1"]),
        [type |-> "unknown-tag"],
        [type |-> "destroy-peer"],
        [type |-> "create-peer", session_id |-> "s1"]}

\* What receiver.next() under its timeout can yield
InboundEvents ==
  {TextFrame(t) : t \in InboundTexts}
  \cup {[kind |-> k] : k \in {"Close", "Ping", "Pong", "Binary", "Err", "None", "Timeout"}}

\* SignalingState::new, no upgrade accepted yet
Init ==
  /\ active_sessions = << >>
  /\ nestjs_sender = 0
  /\ reconnect_info = ReconnectInfo_new
  /\ pc = [e \in Episodes |-> "idle"]
  /\ connection_result = [e \in Episodes |-> "none"]
  /\ sender_task = [e \in Episodes |-> "none"]
  /\ receiver_task = [e \in Episodes |-> "none"]
  /\ receiver_result = [e \in Episodes |-> "none"]
  /\ heartbeat_task = [e \in Episodes |-> "none"]
  /\ rx = [e \in Episodes |-> << >>]
  /\ first_done = [e \in Episodes |-> "none"]
  /\ call = NoCall
  /\ failures = 0
  /\ hist = << >>
  /\ clock = NoClock
  /\ wire = [enq |-> << >>, out |-> << >>, depth |-> 0]
  /\ overlap = [accepted |-> 0, open |-> 0, recording |-> 0]
  /\ sleeping = << >>

\* ------------------------------------------------------------------------
\* Connection manager: the main task of an episode
\* ------------------------------------------------------------------------
\* nestjs_websocket_handler spawns handle_nestjs_socket_with_reconnect, whose
\* first step is update_connection_state(Connected).  Episodes are numbered
\* in the order their upgrades are accepted.
Upgrade(e) ==
  /\ pc[e] = "idle"
  /\ \A f \in Episodes : f < e => pc[f] # "idle"
  /\ reconnect_info' = update_connection_state(reconnect_info, "Connected")
  /\ pc' = [pc EXCEPT ![e] = "store"]
  /\ UNCHANGED <<active_sessions, nestjs_sender, connection_result, sender_task,
                 receiver_task, receiver_result, heartbeat_task, rx, first_done, harnessVars>>

\* handle_nestjs_socket up to the select!: store the tx, spawn the three tasks
StoreSender(e) ==
  /\ pc[e] = "store"
  /\ nestjs_sender' = e
  /\ sender_task' = [sender_task EXCEPT ![e] = "running"]
  /\ receiver_task' = [receiver_task EXCEPT ![e] = "running"]
  /\ heartbeat_task' = [heartbeat_task EXCEPT ![e] = "running"]
  /\ pc' = [pc EXCEPT ![e] = "select"]
  /\ UNCHANGED <<active_sessions, reconnect_info, connection_result,
                 receiver_result, rx, first_done, harnessVars>>

DutyDone(e, d) ==
  CASE d = "sender" -> sender_task[e] = "done"
    [] d = "receiver" -> receiver_task[e] = "done"
    [] d = "heartbeat" -> heartbeat_task[e] = "done"

\* The value of the select! branch taken for duty d
SelectBranch(e, d) ==
  IF d = "receiver" THEN receiver_result[e] ELSE "NetworkError"

\* tokio::select! over the three JoinHandles: when polled it takes a branch
\* whose task has finished; with several finished, any of them.  The handles
\* of the other tasks are dropped, which detaches the tasks (no abort).
Select(e, d) ==
  /\ pc[e] = "select"
  /\ DutyDone(e, d)
  /\ connection_result' = [connection_result EXCEPT ![e] = SelectBranch(e, d)]
  /\ pc' = [pc EXCEPT ![e] = "cleanup"]
  /\ UNCHANGED <<active_sessions, nestjs_sender, reconnect_info, sender_task,
                 receiver_task, receiver_result, heartbeat_task, rx, first_done, harnessVars>>

\* handle_nestjs_socket cleanup: *nestjs_sender = None, return the result
Cleanup(e) ==
  /\ pc[e] = "cleanup"
  /\ nestjs_sender' = 0
  /\ pc' = [pc EXCEPT ![e] = "disconnect"]
  /\ UNCHANGED <<active_sessions, reconnect_info, connection_result, sender_task,
                 receiver_task, receiver_result, heartbeat_task, rx, first_done, harnessVars>>

\* handle_nestjs_socket_with_reconnect: update_connection_state(Disconnected)
MarkDisconnected(e) ==
  /\ pc[e] = "disconnect"
  /\ reconnect_info' = update_connection_state(reconnect_info, "Disconnected")
  /\ pc' = [pc EXCEPT ![e] = "record"]
  /\ UNCHANGED <<active_sessions, nestjs_sender, connection_result, sender_task,
                 receiver_task, receiver_result, heartbeat_task, rx, first_done, harnessVars>>

\* handle_nestjs_socket_with_reconnect: match connection_result
RecordResult(e) ==
  /\ pc[e] = "record"
  /\ reconnect_info' = IF connection_result[e] = "NetworkError"
                       THEN increment_attempt(reconnect_info)
                       ELSE reconnect_info
  /\ pc' = [pc EXCEPT ![e] = "done"]
  /\ UNCHANGED <<active_sessions, nestjs_sender, connection_result, sender_task,
                 receiver_task, receiver_result, heartbeat_task, rx, first_done, harnessVars>>

\* ------------------------------------------------------------------------
\* The three duties of an episode
\* ------------------------------------------------------------------------
\* The outbound queue of episode e accepts frames while its receiving half,
\* owned by the sender task, is alive
QueueOpen(e) == sender_task[e] = "running"

\* Observer: duty d of episode e terminates in this step
Terminates(e, d) ==
  first_done' = IF first_done[e] = "none"
                THEN [first_done EXCEPT ![e] = d]
                ELSE first_done

\* heartbeat_task: one tick; enqueue a ping, break if the queue is closed
heartbeat_tick(e) ==
  /\ heartbeat_task[e] = "running"
  /\ LET r == tx_send(QueueOpen(e), rx[e], PingFrame)
     IN  /\ rx' = [rx EXCEPT ![e] = r.queue]
         /\ heartbeat_task' = [heartbeat_task EXCEPT ![e] =
                                 IF r.ok THEN "running" ELSE "done"]
         /\ IF r.ok THEN UNCHANGED first_done ELSE Terminates(e, "heartbeat")
  /\ UNCHANGED <<active_sessions, nestjs_sender, reconnect_info, pc,
                 connection_result, sender_task, receiver_task, receiver_result>>

SendOutcomes == {"ok", "error", "timeout"}

\* sender_task: take the next frame off the queue and write it to the socket
\* under CONNECTION_TIMEOUT.  The loop cannot see the end of the queue: the
\* heartbeat task keeps a sender alive for as long as this task runs.
sender_step(e, outcome) ==
  /\ sender_task[e] = "running"
  /\ rx[e] # << >>
  /\ IF outcome = "ok"
     THEN /\ rx' = [rx EXCEPT ![e] = Tail(rx[e])]
          /\ UNCHANGED <<sender_task, first_done>>
     ELSE /\ rx' = [rx EXCEPT ![e] = << >>]
          /\ sender_task' = [sender_task EXCEPT ![e] = "done"]
          /\ Terminates(e, "sender")
  /\ UNCHANGED <<active_sessions, nestjs_sender, reconnect_info, pc,
                 connection_result, receiver_task, receiver_result,
                 heartbeat_task>>

\* receiver_task: one turn of the while-let loop on the event ev
receiver_step(e, ev) ==
  /\ receiver_task[e] = "running"
  /\ CASE ev.kind = "Text" ->
            LET d == from_str(ev.text)
                h == IF d.ok
                     THEN handle_signaling_message(d.msg, active_sessions,
                                                   QueueOpen(e), rx[e])
                     ELSE [sessions |-> active_sessions, queue |-> rx[e]]
            IN  /\ active_sessions' = h.sessions
                /\ rx' = [rx EXCEPT ![e] = h.queue]
                /\ UNCHANGED <<receiver_task, receiver_result, first_done>>
       [] ev.kind = "Close" ->
            /\ receiver_task' = [receiver_task EXCEPT ![e] = "done"]
            /\ receiver_result' = [receiver_result EXCEPT ![e] = "NormalClose"]
            /\ Terminates(e, "receiver")
            /\ UNCHANGED <<active_sessions, rx>>
       [] ev.kind = "Ping" ->
            LET r == tx_send(QueueOpen(e), rx[e], PongFrame)
            IN  /\ rx' = [rx EXCEPT ![e] = r.queue]
                /\ IF r.ok
                   THEN UNCHANGED <<receiver_task, receiver_result, first_done>>
                   ELSE /\ receiver_task' = [receiver_task EXCEPT ![e] = "done"]
                        /\ receiver_result' =
                             [receiver_result EXCEPT ![e] = "NetworkError"]
                        /\ Terminates(e, "receiver")
                /\ UNCHANGED active_sessions
       [] ev.kind \in {"Pong", "Binary"} ->
            UNCHANGED <<active_sessions, rx, receiver_task, receiver_result,
                        first_done>>
       [] ev.kind \in {"Err", "None", "Timeout"} ->
            /\ receiver_task' = [receiver_task EXCEPT ![e] = "done"]
            /\ receiver_result' = [receiver_result EXCEPT ![e] = "NetworkError"]
            /\ Terminates(e, "receiver")
            /\ UNCHANGED <<active_sessions, rx>>
  /\ UNCHANGED <<nestjs_sender, reconnect_info, pc, connection_result,
                 sender_task, heartbeat_task>>

\* ------------------------------------------------------------------------
\* The process: any number of upgrades (up to MaxEpisodes), every task of
\* every episode scheduled freely, the backend sending what it likes
\* ------------------------------------------------------------------------
\* The backend of the process talks about one session in one room
ProcessEvents ==
  {ev \in InboundEvents :
     /\ (ev.kind = "Text" /\ "session_id" \in DOMAIN ev.text => ev.text.session_id = "s1")
     /\ (ev.kind = "Text" /\ "room_id" \in DOMAIN ev.text => ev.text.room_id = "r1")}

Heartbeat(e) ==
  heartbeat_tick(e) /\ Len(rx'[e]) <= MaxQueue /\ UNCHANGED harnessVars

Send(e, outcome) ==
  sender_step(e, outcome) /\ UNCHANGED harnessVars

Receive(e, ev) ==
  receiver_step(e, ev) /\ Len(rx'[e]) <= MaxQueue /\ UNCHANGED harnessVars

Next ==
  \/ \E e \in Episodes : Upgrade(e)
  \/ \E e \in Episodes : StoreSender(e)
  \/ \E e \in Episodes, d \in Duties : Select(e, d)
  \/ \E e \in Episodes : Cleanup(e)
  \/ \E e \in Episodes : MarkDisconnected(e)
  \/ \E e \in Episodes : RecordResult(e)
  \/ \E e \in Episodes : Heartbeat(e)
  \/ \E e \in Episodes, outcome \in SendOutcomes : Send(e, outcome)
  \/ \E e \in Episodes, ev \in ProcessEvents : Receive(e, ev)

Spec == Init /\ [][Next]_vars

\* Fair scheduling and firing timers: the main task of every episode and each
\* of its spawned tasks takes a step whenever it stays able to.  What a read
\* or a write returns is the peer's choice and is under no fairness.
Fairness ==
  \A e \in Episodes :
    /\ WF_vars(StoreSender(e))
    /\ WF_vars(\E d \in Duties : Select(e, d))
    /\ WF_vars(Cleanup(e))
    /\ WF_vars(MarkDisconnected(e))
    /\ WF_vars(RecordResult(e))
    /\ WF_vars(Heartbeat(e))
    /\ WF_vars(\E outcome \in SendOutcomes : Send(e, outcome))
    /\ WF_vars(\E ev \in ProcessEvents : Receive(e, ev))

SpecFair == Spec /\ Fairness

\* ------------------------------------------------------------------------
\* Tracker harness: the tracker driven by any sequence of its operations:
\*   mark_connected     update_connection_state(Connected), on an upgrade
\*   mark_disconnected  update_connection_state(Disconnected), on a teardown
\*   increment_attempt  the failure recorded by a network-error teardown
\*   attempt_reconnect  record_failure, the guarded form: the part under the
\*                      lock, then, when the attempt is counted, the sleep
\*                      of next_delay outside the lock and the return of true
\* call observes the last step taken: op names it, before and attempts are
\* the tracker's state and attempts when it began, returned tells whether the
\* call has returned and ret what it returned.  failures counts the failures
\* recorded since the last mark_connected.
\* ------------------------------------------------------------------------
Observed(op, ret) ==
  [op |-> op, before |-> reconnect_info.state, attempts |-> reconnect_info.attempts,
   ret |-> ret, returned |-> TRUE,
   connected |-> call.connected \/ op = "mark_connected"]

TrackerMarkConnected ==
  /\ reconnect_info' = update_connection_state(reconnect_info, "Connected")
  /\ call' = Observed("mark_connected", FALSE)
  /\ failures' = 0
  /\ UNCHANGED <<registryVars, episodeVars, hist, observerVars, sleeping>>

TrackerMarkDisconnected ==
  /\ reconnect_info' = update_connection_state(reconnect_info, "Disconnected")
  /\ call' = Observed("mark_disconnected", FALSE)
  /\ UNCHANGED <<registryVars, episodeVars, failures, hist, observerVars, sleeping>>

TrackerIncrementAttempt ==
  /\ failures < MaxCalls
  /\ reconnect_info' = increment_attempt(reconnect_info)
  /\ call' = Observed("increment_attempt", FALSE)
  /\ failures' = failures + 1
  /\ UNCHANGED <<registryVars, episodeVars, hist, observerVars, sleeping>>

\* attempt_reconnect under the write lock: a refused attempt marks Failed
\* and returns false at once; a counted one updates the tracker, releases
\* the lock and goes to sleep for the next_delay it has just set
TrackerAttemptReconnect ==
  /\ failures < MaxCalls
  /\ LET r == attempt_reconnect(reconnect_info)
     IN  /\ r.ret => Len(sleeping) < MaxSleepers
         /\ reconnect_info' = r.info
         /\ call' = [Observed("attempt_reconnect", FALSE) EXCEPT
                       !.returned = ~r.ret]
         /\ sleeping' = IF r.ret
                        THEN Append(sleeping, [delay |-> r.info.next_delay,
                                               attempt |-> r.info.attempts])
                        ELSE sleeping
  /\ failures' = failures + 1
  /\ UNCHANGED <<registryVars, episodeVars, hist, observerVars>>

\* seq without its i-th element
Without(seq, i) == SubSeq(seq, 1, i - 1) \o SubSeq(seq, i + 1, Len(seq))

\* The sleep of the i-th sleeping attempt_reconnect is over and the call
\* returns true, whatever the tracker has become meanwhile.  A call that
\* went to sleep earlier for no longer a time has woken before.
TrackerAttemptReturns(i) ==
  /\ i \in 1 .. Len(sleeping)
  /\ \A j \in 1 .. (i - 1) : sleeping[j].delay > sleeping[i].delay
  /\ sleeping' = Without(sleeping, i)
  /\ call' = [Observed("attempt_reconnect_returns", TRUE) EXCEPT
                !.connected = call.connected]
  /\ UNCHANGED <<registryVars, trackerVars, episodeVars, failures, hist,
                 observerVars>>

NextTracker ==
  \/ TrackerMarkConnected
  \/ TrackerMarkDisconnected
  \/ TrackerIncrementAttempt
  \/ TrackerAttemptReconnect
  \/ \E i \in 1 .. MaxSleepers : TrackerAttemptReturns(i)

SpecTracker == Init /\ [][NextTracker]_vars

\* ------------------------------------------------------------------------
\* Dispatch harness: one episode, its duties running, the backend sending
\* any frames; hist observes the requests the receiver task dispatches
\* ------------------------------------------------------------------------
Last(seq) == seq[Len(seq)]

\* the last two entries of seq followed by x
Window(seq, x) == IF seq = << >> THEN <<x>> ELSE <<Last(seq), x>>

IsRequest(ev) ==
  /\ ev.kind = "Text"
  /\ from_str(ev.text).ok
  /\ from_str(ev.text).msg.variant \in {"CreatePeer", "DestroyPeer"}

\* A text frame that is no request: it does not decode, or it decodes to an
\* outbound-only variant
IsInert(ev) == ev.kind = "Text" /\ ~IsRequest(ev)

FrameClass(ev) ==
  IF IsRequest(ev) THEN "request" ELSE IF IsInert(ev) THEN "inert" ELSE ev.kind

DispatchHeartbeat ==
  heartbeat_tick(1) /\ Len(rx'[1]) <= MaxBacklog /\ UNCHANGED harnessVars

DispatchSend(outcome) ==
  sender_step(1, outcome) /\ UNCHANGED harnessVars

DispatchReceive(ev) ==
  /\ receiver_step(1, ev)
  /\ Len(rx'[1]) <= MaxBacklog
  /\ hist' = IF IsRequest(ev)
             THEN Window(hist,
                         [msg |-> from_str(ev.text).msg,
                          present |-> from_str(ev.text).msg.session_id
                                        \in DOMAIN active_sessions,
                          returned |->
                            IF from_str(ev.text).msg.variant = "DestroyPeer"
                            THEN destroy_session_output(active_sessions,
                                   from_str(ev.text).msg.session_id).returned
                            ELSE <<provide_turn_config(active_sessions,
                                     from_str(ev.text).msg.session_id,
                                     from_str(ev.text).msg.room_id).result.value>>,
                          before |-> get_active_sessions_count(active_sessions),
                          after |-> get_active_sessions_count(active_sessions')])
             ELSE hist
  /\ call' = [NoCall EXCEPT !.op = "receive", !.before = FrameClass(ev)]
  /\ UNCHANGED <<failures, observerVars, sleeping>>

NextDispatch ==
  \/ Upgrade(1)
  \/ StoreSender(1)
  \/ DispatchHeartbeat
  \/ \E outcome \in SendOutcomes : DispatchSend(outcome)
  \/ \E ev \in InboundEvents : DispatchReceive(ev)

SpecDispatch == Init /\ [][NextDispatch]_vars

\* ------------------------------------------------------------------------
\* Timing harness: one episode against a peer that sends nothing but pongs.
\* Time passes only when nothing is due; a ping is written as soon as it is
\* queued; the peer answers each ping after one of PongDelays or not at all.
\* ------------------------------------------------------------------------
PongDelays == {0, 5000, 10000}

OtherObservers == <<call, failures, hist, wire, overlap, sleeping>>

\* heartbeat_task: interval.tick() completes, a ping is queued
TimingTick ==
  /\ clock.now = clock.next_tick
  /\ clock.ticks < MaxTicks
  /\ heartbeat_tick(1)
  /\ clock' = [clock EXCEPT !.next_tick = clock.now + HEARTBEAT_INTERVAL,
                            !.ticks = clock.ticks + 1]
  /\ UNCHANGED OtherObservers

\* sender_task writes the queued frame; the peer answers a ping later, or never
TimingWrite(delay) ==
  /\ rx[1] # << >>
  /\ LET ping == Head(rx[1]) = PingFrame
     IN  clock' = IF ~ping THEN clock
                  ELSE IF delay \in PongDelays
                       THEN [clock EXCEPT !.pong_at = clock.now + delay]
                       ELSE [clock EXCEPT !.unanswered = TRUE]
  /\ sender_step(1, "ok")
  /\ UNCHANGED OtherObservers

\* receiver_task reads the pong; the next read gets a fresh timeout
TimingPong ==
  /\ clock.pong_at = clock.now
  /\ receiver_step(1, PongFrame)
  /\ clock' = [clock EXCEPT !.pong_at = -1,
                            !.deadline = clock.now + READ_TIMEOUT]
  /\ UNCHANGED OtherObservers

\* receiver_task: timeout(CONNECTION_TIMEOUT * 2, receiver.next()) elapses
TimingTimeout ==
  /\ clock.now = clock.deadline
  /\ clock.pong_at # clock.now
  /\ receiver_step(1, [kind |-> "Timeout"])
  /\ clock' = [clock EXCEPT !.timed_out = TRUE]
  /\ UNCHANGED OtherObservers

\* The instants at which something is due
Due ==
  {clock.next_tick : x \in {y \in {1} : heartbeat_task[1] = "running"
                                       /\ clock.ticks < MaxTicks}}
  \cup {clock.deadline : x \in {y \in {1} : receiver_task[1] = "running"}}
  \cup {clock.pong_at : x \in {y \in {1} : clock.pong_at >= 0
                                       /\ receiver_task[1] = "running"}}

\* Time passes to the next instant at which something is due
TimingAdvance ==
  /\ pc[1] # "idle" /\ pc[1] # "store"
  /\ rx[1] = << >>
  /\ Due # {}
  /\ \A t \in Due : t > clock.now
  /\ clock' = [clock EXCEPT !.now = CHOOSE t \in Due : \A u \in Due : t <= u]
  /\ UNCHANGED <<registryVars, trackerVars, episodeVars, OtherObservers>>

NextTiming ==
  \/ Upgrade(1)
  \/ StoreSender(1)
  \/ TimingTick
  \/ \E delay \in PongDelays \cup {-1} : TimingWrite(delay)
  \/ TimingPong
  \/ TimingTimeout
  \/ TimingAdvance
  \/ \E d \in Duties : Select(1, d)
  \/ Cleanup(1)
  \/ MarkDisconnected(1)
  \/ RecordResult(1)

SpecTiming == Init /\ [][NextTiming]_vars

\* ------------------------------------------------------------------------
\* Ordering harness: one episode; wire.enq observes the frames in the order
\* the heartbeat and receiver tasks hand them to tx.send, wire.out the frames
\* in the order the sender task writes them, wire.depth the longest queue a
\* write was taken from
\* ------------------------------------------------------------------------
\* The frames the receiver task hands to tx.send on event ev
Enqueues(ev) ==
  IF ~QueueOpen(1) THEN << >>
  ELSE IF IsRequest(ev)
       THEN handle_signaling_message(from_str(ev.text).msg, active_sessions,
                                     TRUE, << >>).queue
       ELSE IF ev.kind = "Ping" THEN <<PongFrame>> ELSE << >>

FifoHeartbeat ==
  /\ Len(wire.enq) < MaxFrames
  /\ heartbeat_tick(1)
  /\ wire' = [wire EXCEPT !.enq = IF QueueOpen(1) THEN Append(@, PingFrame)
                                  ELSE @]
  /\ UNCHANGED <<call, failures, hist, clock, overlap, sleeping>>

FifoSend(outcome) ==
  /\ sender_step(1, outcome)
  /\ wire' = IF outcome = "ok"
             THEN [wire EXCEPT !.out = Append(@, Head(rx[1])),
                               !.depth = IF Len(rx[1]) > @ THEN Len(rx[1]) ELSE @]
             ELSE wire
  /\ UNCHANGED <<call, failures, hist, clock, overlap, sleeping>>

FifoReceive(ev) ==
  /\ Len(wire.enq) + Len(Enqueues(ev)) <= MaxFrames
  /\ receiver_step(1, ev)
  /\ wire' = [wire EXCEPT !.enq = @ \o Enqueues(ev)]
  /\ UNCHANGED <<call, failures, hist, clock, overlap, sleeping>>

NextFifo ==
  \/ Upgrade(1)
  \/ StoreSender(1)
  \/ FifoHeartbeat
  \/ \E outcome \in SendOutcomes : FifoSend(outcome)
  \/ \E ev \in InboundEvents : FifoReceive(ev)

SpecFifo == Init /\ [][NextFifo]_vars

\* ------------------------------------------------------------------------
\* Overlap harness: the tracker under any number of connection episodes.
\* Of handle_nestjs_socket_with_reconnect only the three tracker accesses
\* are kept, each under its own lock: overlap.open counts the episodes
\* between their mark_connected and their return, overlap.recording those
\* that returned NetworkError and have not yet recorded the failure.
\* ------------------------------------------------------------------------
ConnectionResults == {"NormalClose", "NetworkError"}

\* an upgrade is accepted: update_connection_state(Connected)
OverlapUpgrade ==
  /\ overlap.accepted < MaxOverlap
  /\ reconnect_info' = update_connection_state(reconnect_info, "Connected")
  /\ overlap' = [overlap EXCEPT !.accepted = @ + 1, !.open = @ + 1]
  /\ UNCHANGED <<registryVars, episodeVars, call, failures, hist, clock, wire,
                 sleeping>>

\* handle_nestjs_socket of an episode returns: update_connection_state(Disconnected)
OverlapDisconnect(result) ==
  /\ overlap.open > 0
  /\ reconnect_info' = update_connection_state(reconnect_info, "Disconnected")
  /\ overlap' = [overlap EXCEPT !.open = @ - 1,
                                !.recording = IF result = "NetworkError"
                                              THEN @ + 1 ELSE @]
  /\ UNCHANGED <<registryVars, episodeVars, call, failures, hist, clock, wire,
                 sleeping>>

\* the NetworkError arm: reconnect_info.increment_attempt()
OverlapRecord ==
  /\ overlap.recording > 0
  /\ reconnect_info' = increment_attempt(reconnect_info)
  /\ overlap' = [overlap EXCEPT !.recording = @ - 1]
  /\ UNCHANGED <<registryVars, episodeVars, call, failures, hist, clock, wire,
                 sleeping>>

NextOverlap ==
  \/ OverlapUpgrade
  \/ \E result \in ConnectionResults : OverlapDisconnect(result)
  \/ OverlapRecord

SpecOverlap == Init /\ [][NextOverlap]_vars

\* ========================================================================
\* Properties
\* ========================================================================
Tasks(e) == <<sender_task[e], receiver_task[e], heartbeat_task[e]>>

\* The duties of episode e are spawned and its select! has not resolved
Active(e) == pc[e] = "select"

\* handle_nestjs_socket of episode e has returned
Returned(e) == pc[e] \in {"disconnect", "record", "done"}

\* ---- C1 -----------------------------------------------------------------
\* C1: at most one episode is active at any time; two episodes never run
\* their duties concurrently.
C1_SingleActiveEpisode ==
  \A e1, e2 \in Episodes : Active(e1) /\ Active(e2) => e1 = e2

\* ---- C2 -----------------------------------------------------------------
\* C2: once handle_nestjs_socket of an episode has returned, none of the
\* three duties of that episode is still running.
C2_NoDutyAfterReturn ==
  \A e \in Episodes :
    Returned(e) => /\ sender_task[e] # "running"
                   /\ receiver_task[e] # "running"
                   /\ heartbeat_task[e] # "running"

\* ---- C3 -----------------------------------------------------------------
\* C3: an episode that ends with a network failure takes the tracker from
\* Connected to Disconnected, with the stored sender already cleared, and
\* then from Disconnected to Reconnecting with attempts = 1.
C3_FailureTransitions ==
  [][\A e \in Episodes :
       connection_result[e] = "NetworkError" =>
         /\ (pc[e] = "disconnect" /\ pc'[e] = "record" =>
               /\ reconnect_info.state = "Connected"
               /\ nestjs_sender = 0
               /\ reconnect_info'.state = "Disconnected")
         /\ (pc[e] = "record" /\ pc'[e] = "done" =>
               /\ reconnect_info.state = "Disconnected"
               /\ reconnect_info'.state = "Reconnecting"
               /\ reconnect_info'.attempts = 1)]_vars

\* ---- C4 -----------------------------------------------------------------
\* C4: when the inbound duty is the first duty of the episode to terminate
\* and it terminated on a clean close frame, the outcome the select! gives
\* the episode is normal closure, whatever the other two duties do meanwhile.
C4_CleanCloseIsNormal ==
  [][\A e \in Episodes :
       /\ pc[e] = "select" /\ pc'[e] = "cleanup"
       /\ first_done[e] = "receiver" /\ receiver_result[e] = "NormalClose"
       => connection_result'[e] = "NormalClose"]_vars

\* ---- C5 -----------------------------------------------------------------
IsFailureCall == call.connected /\ call.op = "attempt_reconnect"

\* C5 as stated: after MAX_ATTEMPTS consecutive recorded failures from a
\* freshly connected tracker the state is Failed.
C5_FailedAfterMax ==
  IsFailureCall /\ failures = MAX_RECONNECT_ATTEMPTS
    => reconnect_info.state = "Failed"

\* C5 amended: the first MAX_ATTEMPTS recorded failures after a
\* mark_connected are counted and leave the state Reconnecting, each call
\* then sleeping its back-off delay before it returns true; every
\* record_failure after them returns false at once, sets Failed and leaves
\* attempts unchanged.
C5_RecordFailure ==
  /\ IsFailureCall =>
       IF failures <= MAX_RECONNECT_ATTEMPTS
       THEN /\ ~call.returned
            /\ sleeping # << >>
            /\ Last(sleeping).attempt = failures
            /\ reconnect_info.state = "Reconnecting"
            /\ reconnect_info.attempts = failures
       ELSE /\ call.returned /\ call.ret = FALSE
            /\ reconnect_info.state = "Failed"
            /\ reconnect_info.attempts = call.attempts
  /\ call.op = "attempt_reconnect_returns" => call.ret = TRUE

C5_Witness ==
  /\ IsFailureCall
  /\ failures = MAX_RECONNECT_ATTEMPTS + 2
  /\ call.before = "Failed"
  /\ reconnect_info.attempts = MAX_RECONNECT_ATTEMPTS

\* ---- C6 -----------------------------------------------------------------
\* C6 as stated: once the tracker state is Failed no operation changes it.
C6_FailedIsTerminal ==
  [][reconnect_info.state = "Failed" => reconnect_info'.state = "Failed"]_vars

\* C6 amended: of the operations on a Failed tracker only record_failure
\* keeps it Failed (returning false, attempts unchanged); mark_connected
\* makes it Connected, mark_disconnected Disconnected and the teardown's
\* increment_attempt Reconnecting.  The return of an attempt_reconnect that
\* was asleep touches nothing.
C6_LeavingFailed ==
  [][reconnect_info.state = "Failed" =>
       CASE call'.op = "attempt_reconnect" ->
              /\ reconnect_info'.state = "Failed"
              /\ reconnect_info'.attempts = reconnect_info.attempts
              /\ call'.returned /\ call'.ret = FALSE
         [] call'.op = "attempt_reconnect_returns" ->
              reconnect_info' = reconnect_info
         [] call'.op = "mark_connected" -> reconnect_info'.state = "Connected"
         [] call'.op = "mark_disconnected" -> reconnect_info'.state = "Disconnected"
         [] call'.op = "increment_attempt" -> reconnect_info'.state = "Reconnecting"
         [] OTHER -> FALSE]_vars

C6_Witness ==
  /\ call.op = "attempt_reconnect"
  /\ call.before = "Failed"
  /\ call.returned /\ call.ret = FALSE
  /\ reconnect_info.state = "Failed"

\* ---- C7 -----------------------------------------------------------------
\* C7: mark_connected from any prior state leaves attempts = 0,
\* next_delay = INITIAL_DELAY and state = Connected.
C7_MarkConnectedResets ==
  call.op = "mark_connected" =>
    /\ reconnect_info.attempts = 0
    /\ reconnect_info.next_delay = INITIAL_RECONNECT_DELAY
    /\ reconnect_info.state = "Connected"

C7_Witness ==
  /\ call.op = "mark_connected"
  /\ call.before = "Failed"
  /\ call.attempts >= MAX_RECONNECT_ATTEMPTS

\* ---- C8 -----------------------------------------------------------------
\* C8: after k recorded failures since the last mark_connected, k below
\* MAX_ATTEMPTS, next_delay = min(INITIAL_DELAY * 2^k, MAX_DELAY).
C8_ExponentialBackoff ==
  failures < MAX_RECONNECT_ATTEMPTS =>
    reconnect_info.next_delay =
      Min(INITIAL_RECONNECT_DELAY * Pow2(failures), MAX_RECONNECT_DELAY)

C8_Witness ==
  /\ call.connected
  /\ call.op \in {"attempt_reconnect", "increment_attempt"}
  /\ failures = MAX_RECONNECT_ATTEMPTS - 1

\* ---- C9 -----------------------------------------------------------------
\* The last two requests dispatched were CreatePeer{s, r} then DestroyPeer{s}
CreateThenDestroy ==
  /\ Len(hist) = 2
  /\ hist[1].msg.variant = "CreatePeer"
  /\ hist[2].msg.variant = "DestroyPeer"
  /\ hist[1].msg.session_id = hist[2].msg.session_id

\* C9 as stated: CreatePeer{s, r} followed by DestroyPeer{s} returns count()
\* to the value it had before the CreatePeer, for every registry state.
C9_CountRestored ==
  CreateThenDestroy => hist[2].after = hist[1].before

\* C9 amended: count() returns to its value when s was not registered before
\* the CreatePeer, and ends one lower when s was registered.
C9_CountAfterLifecycle ==
  CreateThenDestroy =>
    hist[2].after = IF hist[1].present THEN hist[1].before - 1 ELSE hist[1].before

C9_Witness ==
  /\ CreateThenDestroy
  /\ ~hist[1].present
  /\ hist[1].before = 1
  /\ hist[1].after = 2

\* ---- C10 ----------------------------------------------------------------
PeerCreatedReply(s) ==
  TextFrame([type |-> "peer-created", session_id |-> s, success |-> TRUE])

PeerDestroyedReply(s) ==
  TextFrame([type |-> "peer-destroyed", session_id |-> s])

\* What the dispatch of request ev leaves in the registry
Registered(ev) ==
  LET m == from_str(ev.text).msg
  IN  IF m.variant = "CreatePeer"
      THEN /\ m.session_id \in DOMAIN active_sessions'
           /\ active_sessions'[m.session_id] = m.room_id
      ELSE m.session_id \notin DOMAIN active_sessions'

\* The one reply to request ev
ReplyTo(ev) ==
  LET m == from_str(ev.text).msg
  IN  IF m.variant = "CreatePeer" THEN PeerCreatedReply(m.session_id)
                                  ELSE PeerDestroyedReply(m.session_id)

\* C10 as stated: the dispatch of CreatePeer{s, r} leaves s registered with
\* r, that of DestroyPeer{s} leaves s absent, and each enqueues exactly one
\* reply.
C10_AlwaysReplies ==
  [][\A ev \in InboundEvents :
       IsRequest(ev) /\ DispatchReceive(ev) =>
         /\ Registered(ev)
         /\ rx'[1] = Append(rx[1], ReplyTo(ev))]_vars

\* C10 amended: the registry is left as stated; exactly one reply is
\* enqueued while the outbound queue of the episode is open, and none once
\* the outbound duty has ended.
C10_Dispatch ==
  [][\A ev \in InboundEvents :
       IsRequest(ev) /\ DispatchReceive(ev) =>
         /\ Registered(ev)
         /\ rx'[1] = IF QueueOpen(1) THEN Append(rx[1], ReplyTo(ev)) ELSE rx[1]]_vars

C10_Witness ==
  /\ hist # << >>
  /\ Last(hist).msg.variant = "DestroyPeer"
  /\ ~Last(hist).present
  /\ Len(rx[1]) = 2
  /\ rx[1][1] = PeerCreatedReply("s2")
  /\ rx[1][2] = PeerDestroyedReply(Last(hist).msg.session_id)
  /\ "s2" \in DOMAIN active_sessions /\ active_sessions["s2"] = "r2"

\* ---- C11 ----------------------------------------------------------------
\* C11: a text frame that fails to decode, or decodes to an outbound-only
\* variant, is inert: the inbound duty keeps running, the episode is not
\* terminated, the registry is unchanged and no reply is enqueued.
C11_InertFrames ==
  [][\A ev \in InboundEvents :
       IsInert(ev) /\ DispatchReceive(ev) =>
         /\ receiver_task'[1] = "running"
         /\ first_done' = first_done
         /\ pc' = pc
         /\ active_sessions' = active_sessions
         /\ rx' = rx]_vars

C11_Witness ==
  /\ call.op = "receive"
  /\ call.before = "inert"
  /\ receiver_task[1] = "running"
  /\ sender_task[1] = "running"
  /\ active_sessions # << >>
  /\ rx[1] # << >>

\* ---- C12 ----------------------------------------------------------------
\* The request ev is a DestroyPeer of an id that is not registered
DestroysAbsent(ev) ==
  /\ IsRequest(ev)
  /\ from_str(ev.text).msg.variant = "DestroyPeer"
  /\ from_str(ev.text).msg.session_id \notin DOMAIN active_sessions

\* C12 as stated: destroy on an id that is not registered reports that the
\* session did not exist.
C12_ReportsAbsence ==
  /\ hist # << >>
  /\ Last(hist).msg.variant = "DestroyPeer"
  /\ ~Last(hist).present
  => Last(hist).returned = <<FALSE>>

\* C12 amended: destroy on an id that is not registered returns no value and
\* logs nothing, raises no error (the inbound duty runs on) and leaves the
\* registry unchanged, so a second destroy of the same id is a no-op.
C12_DestroyAbsent ==
  [][\A ev \in InboundEvents :
       DestroysAbsent(ev) /\ DispatchReceive(ev) =>
         /\ active_sessions' = active_sessions
         /\ receiver_task'[1] = "running"
         /\ Last(hist').returned = << >>
         /\ destroy_session_output(active_sessions,
                                   from_str(ev.text).msg.session_id).log = << >>]_vars

C12_Witness ==
  /\ Len(hist) = 2
  /\ hist[1].msg.variant = "DestroyPeer"
  /\ hist[2].msg = hist[1].msg
  /\ hist[1].present
  /\ ~hist[2].present
  /\ hist[2].before = 1 /\ hist[2].after = 1

\* ---- C13 ----------------------------------------------------------------
\* C13: a peer that answers every heartbeat ping with a pong is never
\* terminated by the read timeout; only one that left a ping unanswered is.
C13_PongsKeepAlive ==
  clock.timed_out => clock.unanswered

\* ---- C14 ----------------------------------------------------------------
\* C14: within one episode the frames written to the socket are, in order,
\* the first frames that the heartbeat task and the dispatch replies put on
\* the outbound queue; so the replies to two requests are written in the
\* order in which the requests were received.
C14_FifoOrder ==
  /\ Len(wire.out) <= Len(wire.enq)
  /\ \A i \in 1..Len(wire.out) : wire.out[i] = wire.enq[i]

\* two different replies were written, taken from a queue that held at least
\* two frames at once
C14_Witness ==
  /\ Len(wire.out) >= 2
  /\ wire.out[1].kind = "Text" /\ wire.out[2].kind = "Text"
  /\ wire.out[1] # wire.out[2]
  /\ wire.depth >= 2

\* ---- C15 ----------------------------------------------------------------
\* C15: while some episode is active (its sender stored, its teardown not
\* begun) the sender cell is non-empty and holds the sender of an active
\* episode; the teardown of another episode never leaves it cleared.
C15_SenderReflectsActive ==
  (\E e \in Episodes : Active(e)) =>
    /\ nestjs_sender \in Episodes
    /\ Active(nestjs_sender)

\* ---- C16 ----------------------------------------------------------------
\* The episode accepted last
Newest == CHOOSE e \in Episodes :
            /\ pc[e] # "idle"
            /\ \A f \in Episodes : pc[f] # "idle" => f <= e

\* C16: while the most recently accepted episode is running, the tracker
\* state is Connected and attempts is 0; the teardown of an earlier episode
\* never overwrites what the newer episode's mark_connected set.
C16_ConnectedWhileNewestRuns ==
  (\E e \in Episodes : pc[e] # "idle") /\ pc[Newest] \in {"store", "select"} =>
    /\ reconnect_info.state = "Connected"
    /\ reconnect_info.attempts = 0

\* ---- C17 ----------------------------------------------------------------
\* C17: in every reachable state attempts <= MAX_RECONNECT_ATTEMPTS, for any
\* number and interleaving of connection episodes.
C17_AttemptsBounded ==
  reconnect_info.attempts <= MAX_RECONNECT_ATTEMPTS

\* ---- C18 ----------------------------------------------------------------
\* C18: over every sequence of tracker operations next_delay stays within
\* INITIAL_RECONNECT_DELAY .. MAX_RECONNECT_DELAY; an operation other than
\* mark_connected lowers neither next_delay nor attempts; and attempts
\* becomes 0 only in a step that sets the state to Connected.
C18_TrackerInvariant ==
  /\ [](/\ INITIAL_RECONNECT_DELAY <= reconnect_info.next_delay
        /\ reconnect_info.next_delay <= MAX_RECONNECT_DELAY)
  /\ [][/\ (call'.op # "mark_connected" =>
              /\ reconnect_info'.next_delay >= reconnect_info.next_delay
              /\ reconnect_info'.attempts >= reconnect_info.attempts)
        /\ (reconnect_info.attempts # 0 /\ reconnect_info'.attempts = 0 =>
              reconnect_info'.state = "Connected")]_vars

\* a failure recorded after a mark_connected with the delay already at its
\* ceiling
C18_Witness ==
  /\ call.connected
  /\ call.op \in {"attempt_reconnect", "increment_attempt"}
  /\ call.attempts >= MAX_RECONNECT_ATTEMPTS
  /\ reconnect_info.attempts > call.attempts
  /\ reconnect_info.next_delay = MAX_RECONNECT_DELAY

\* ---- C19 ----------------------------------------------------------------
\* C19: after the first duty of an episode has terminated, the other two
\* duties of that episode eventually terminate too, whatever the peer sends.
C19_OthersTerminate ==
  \A e \in Episodes :
    (first_done[e] # "none") ~>
      (/\ sender_task[e] = "done"
       /\ receiver_task[e] = "done"
       /\ heartbeat_task[e] = "done")

====
